---- MODULE Spec2Model ----
(***************************************************************************)
(* clipd: the clipboard daemon of clipto.  One encrypted in-memory buffer  *)
(* behind a mutex, one thread per accepted connection, and a watcher       *)
(* thread that starts `wl-paste --watch` when the Wayland socket appears   *)
(* and kills it when the socket is deleted.                                *)
(***************************************************************************)
EXTENDS Integers, Sequences, FiniteSets, TLC

\* ------------------------------------------------------------------ bounds
MaxConns == 2          \* connections being served at the same time
MaxAccepts == 3        \* connections accepted over the daemon's life
MaxLen == 1            \* longest payload, in bytes
NumNonces == 2         \* distinct values the random nonce can take
MaxFsEvents == 2       \* changes made to $XDG_RUNTIME_DIR by the environment
MaxDeclared == 20      \* largest length a frame's prefix declares (u32::MAX)

\* ------------------------------------------------------- program constants
KeyLen == 32           \* main: key.len() != 32

Conns == 1..MaxConns
Nonces == 1..NumNonces
Bytes == {0}
Payloads == UNION {[1..n -> Bytes] : n \in 0..MaxLen}
KeyLens == {0, KeyLen - 1, KeyLen, KeyLen + 1}
NoFile == 0 - 1        \* an unset variable or a missing key file

VARIABLES
    \* process environment and file system
    env,          \* [runtime_dir, display : BOOLEAN]: XDG_RUNTIME_DIR, WAYLAND_DISPLAY set
    sockFile,     \* $XDG_RUNTIME_DIR/clipto.sock: "none" | "stale" | "bound"
    wlSock,       \* $XDG_RUNTIME_DIR/$WAYLAND_DISPLAY exists
    fsCount,      \* changes the environment has made to the runtime directory
    \* main thread
    mainPc,       \* "start" | "listening" | "failed" | "exited"
    handlerSet,   \* ctrlc handler installed
    accepted,     \* connections accepted so far
    \* State behind Arc<Mutex<..>>
    lock,         \* 0, or the connection whose worker holds the guard
    buffer,       \* <<>> (None) or <<[nonce, ciphertext]>> (Some)
    \* connection workers
    pc,           \* where each connection's worker stands in handle_connection
    peer,         \* who connected: "none" | "client" | "bridge"
    req,          \* the request read_frame returned
    resp,         \* the response computed
    newbuf,       \* store's local (nonce, ciphertext): <<>> or <<[..]>>
    piped,        \* what was written to wl-copy's stdin: <<>> or <<bytes>>
    sent,         \* what the peer received: <<>> or <<response>>
    fwd,          \* how far sync_to_wayland went for this connection
    stored,       \* this connection's store call returned Ok
    \* watcher thread
    watcherPc,    \* "off" | "init" | "check" | "loop" | "stopped"
    watching,     \* inotify watch on the runtime directory registered
    events,       \* inotify queue
    child,        \* Option<Child>: 0 (None) or the pid held
    \* wl-paste / wl-copy processes and the compositor
    nextPid, running, reaped,
    relayQ,       \* selections a running bridge has still to relay
    \* history
    lastObs,      \* the watcher's last observation of the Wayland socket
    spawnErr,     \* the watcher's last spawn_wl_paste returned None
    lastStored,   \* <<>> or <<payload of the last successful store>>
    \* main's locals and result
    key,          \* length of the key load_key returned, NoFile once dropped
    mainErr,      \* the error main returned, "" if none
    \* read_frame on its own
    wire,         \* what a peer puts on the stream
    rx            \* what read_frame made of it

vars == <<env, sockFile, wlSock, fsCount, mainPc, handlerSet, accepted, lock,
          buffer, pc, peer, req, resp, newbuf, piped, sent, fwd, stored,
          watcherPc, watching, events, child, nextPid, running, reaped, relayQ,
          lastObs, spawnErr, lastStored, key, mainErr, wire, rx>>

envVars == <<env, sockFile, wlSock, fsCount>>
mainVars == <<mainPc, handlerSet, accepted, key, mainErr>>
storeVars == <<lock, buffer, lastStored>>
connVars == <<pc, peer, req, resp, newbuf, piped, sent, fwd, stored>>
watcherVars == <<watcherPc, watching, events, child, lastObs, spawnErr>>
procVars == <<nextPid, running, reaped>>
bridgeVars == <<relayQ>>
frameVars == <<wire, rx>>

\* ------------------------------------------------------------ clipto-ipc
User == "User"
Wayland == "Wayland"
CopySource == {User, Wayland}

NoRequest == [type |-> "None", payload |-> <<>>, source |-> User]
Copy(p, s) == [type |-> "Copy", payload |-> p, source |-> s]
Paste == [type |-> "Paste", payload |-> <<>>, source |-> User]
Request == {Copy(p, s) : p \in Payloads, s \in CopySource} \cup {Paste}

NoResponse == [type |-> "None", data |-> <<>>, message |-> ""]
RespOk == [type |-> "Ok", data |-> <<>>, message |-> ""]
RespPayload(d) == [type |-> "Payload", data |-> d, message |-> ""]
RespError(m) == [type |-> "Error", data |-> <<>>, message |-> m]

\* bincode::serialize of a Request: a u32 variant tag; for Copy, the u64
\* length of the payload, its bytes and the u32 tag of the source.
serialized_size(msg) ==
    IF msg.type = "Copy" THEN 4 + 8 + Len(msg.payload) + 4 ELSE 4

\* What a peer puts on the stream before it stops sending: `header` bytes of
\* the 4-byte length prefix, which declare `declared` bytes when all 4 are
\* there, then `avail` bytes of payload; msg is what bincode::deserialize
\* makes of the first `declared` of them, NoRequest if it fails.
Stream(header, declared, avail, msg) ==
    [header |-> header, declared |-> declared, avail |-> avail, msg |-> msg]

\* write_frame of a request: the prefix and exactly the serialized bytes
Frame(msg) == Stream(4, serialized_size(msg), serialized_size(msg), msg)

\* Streams read_frame cannot decode: closed at once, closed inside the
\* prefix, closed inside the payload, bytes that are no request, and a
\* prefix declaring the largest length with no payload behind it.
BadStreams ==
    {Stream(0, 0, 0, NoRequest), Stream(3, 0, 0, NoRequest),
     Stream(4, serialized_size(Paste), serialized_size(Paste) - 1, NoRequest),
     Stream(4, 1, 1, NoRequest), Stream(4, MaxDeclared, 0, NoRequest)}
Streams == {Frame(msg) : msg \in Request} \cup BadStreams

\* Every stream a peer can send within the bounds
AnyStream ==
    {s \in [header : 0..4, declared : 0..MaxDeclared, avail : 0..MaxDeclared,
            msg : Request \cup {NoRequest}] :
        s.msg # NoRequest => serialized_size(s.msg) <= s.declared}

NoStream == Stream(0, 0, 0, NoRequest)
NotRead == [done |-> FALSE, ok |-> FALSE, msg |-> NoRequest, alloc |-> 0, read |-> 0]
FrameErr(alloc, read) ==
    [done |-> TRUE, ok |-> FALSE, msg |-> NoRequest, alloc |-> alloc, read |-> read]

\* read_frame: read_exact of the 4-byte prefix, vec![0u8; len], read_exact
\* of len bytes, bincode::deserialize.  alloc is the size of the buffer it
\* allocated and read the payload bytes it took from the stream.
read_frame(s) ==
    IF s.header < 4 THEN FrameErr(0, 0)
    ELSE LET len == s.declared IN
         IF s.avail < len THEN FrameErr(len, s.avail)
         ELSE IF s.msg = NoRequest THEN FrameErr(len, len)
         ELSE [done |-> TRUE, ok |-> TRUE, msg |-> s.msg, alloc |-> len, read |-> len]

\* socket_path(): Ok iff XDG_RUNTIME_DIR is set
socket_path == env.runtime_dir

\* ------------------------------------------------------------ encryption
\* ChaCha20Poly1305 under the daemon's key: the ciphertext opens only under
\* the nonce it was sealed with.
encrypt(nonce, plaintext) == <<nonce, plaintext>>

decrypt(nonce, ciphertext) ==
    IF Len(ciphertext) = 2 /\ ciphertext[1] = nonce
    THEN [ok |-> TRUE, plaintext |-> ciphertext[2]]
    ELSE [ok |-> FALSE, plaintext |-> <<>>]

\* Vec<u8>::zeroize
zeroize(ciphertext) == <<>>

EncryptedBuffer(nonce, ciphertext) == [nonce |-> nonce, ciphertext |-> ciphertext]

\* impl Drop for EncryptedBuffer, applied to an Option<EncryptedBuffer>
DropBuffer(b) ==
    IF b = <<>> THEN <<>>
    ELSE <<EncryptedBuffer(b[1].nonce, zeroize(b[1].ciphertext))>>

\* (mutation) a load that answers an empty payload when nothing is stored
load_none_as_empty(b) ==
    IF b = <<>> THEN [ok |-> TRUE, data |-> <<>>, message |-> ""]
    ELSE LET d == decrypt(b[1].nonce, b[1].ciphertext)
         IN IF d.ok THEN [ok |-> TRUE, data |-> d.plaintext, message |-> ""]
            ELSE [ok |-> FALSE, data |-> <<>>, message |-> "decryption failed"]

\* State::load on the buffer b
load(b) ==
    IF b = <<>> THEN [ok |-> FALSE, data |-> <<>>, message |-> "clipboard is empty"]
    ELSE LET d == decrypt(b[1].nonce, b[1].ciphertext)
         IN IF d.ok THEN [ok |-> TRUE, data |-> d.plaintext, message |-> ""]
            ELSE [ok |-> FALSE, data |-> <<>>, message |-> "decryption failed"]

\* ------------------------------------------------------------- key loading
\* load_key: creds and key_file are the lengths of the key files the two
\* variables lead to, NoFile where the variable is unset or the file missing.
load_key(creds, key_file) ==
    IF creds # NoFile THEN [ok |-> TRUE, len |-> creds]
    ELSE IF key_file # NoFile THEN [ok |-> TRUE, len |-> key_file]
    ELSE [ok |-> FALSE, len |-> 0]

\* (mutation) wayland_socket without its path.exists() test
wayland_socket_unchecked == env.runtime_dir /\ env.display

\* wayland_socket().is_some()
wayland_socket == env.runtime_dir /\ env.display /\ wlSock

\* ------------------------------------------------------------------- Init
Init ==
    /\ env \in [runtime_dir : BOOLEAN, display : BOOLEAN]
    /\ sockFile \in {"none", "stale"}
    /\ wlSock \in (IF env.runtime_dir /\ env.display THEN BOOLEAN ELSE {FALSE})
    /\ fsCount = 0
    /\ mainPc = "start"
    /\ handlerSet = FALSE
    /\ accepted = 0
    /\ lock = 0
    /\ buffer = <<>>
    /\ pc = [c \in Conns |-> "free"]
    /\ peer = [c \in Conns |-> "none"]
    /\ req = [c \in Conns |-> NoRequest]
    /\ resp = [c \in Conns |-> NoResponse]
    /\ newbuf = [c \in Conns |-> <<>>]
    /\ piped = [c \in Conns |-> <<>>]
    /\ sent = [c \in Conns |-> <<>>]
    /\ fwd = [c \in Conns |-> "none"]
    /\ stored = [c \in Conns |-> FALSE]
    /\ watcherPc = "off"
    /\ watching = FALSE
    /\ events = <<>>
    /\ child = 0
    /\ nextPid = 1
    /\ running = {}
    /\ reaped = {}
    /\ relayQ = <<>>
    /\ lastObs = "none"
    /\ spawnErr = FALSE
    /\ lastStored = <<>>
    /\ key = NoFile
    /\ mainErr = ""
    /\ wire = NoStream
    /\ rx = NotRead

Alive == mainPc = "listening"

\* ------------------------------------------------------------------- main
\* (mutation) start_wayland_watcher without its two early returns
start_wayland_watcher_always == watcherPc' = "init"

\* start_wayland_watcher up to the thread spawn: returns without a thread
\* when either variable is unset.
start_wayland_watcher ==
    watcherPc' = IF env.runtime_dir /\ env.display THEN "init" ELSE "off"

\* The errors main returns
NoKeyErr == "no key found"
KeyLenErr == "key must be exactly 32 bytes"
NoRuntimeDirErr == "XDG_RUNTIME_DIR not set"
BindErr == "failed to bind"
PermsErr == "failed to set socket permissions"
HandlerErr == "failed to set signal handler"

\* let key = load_key()?
LoadKey ==
    /\ mainPc = "start"
    /\ \E creds \in KeyLens \cup {NoFile}, key_file \in KeyLens \cup {NoFile} :
        LET r == load_key(creds, key_file) IN
        IF r.ok
        THEN /\ key' = r.len
             /\ mainPc' = "keyed"
             /\ mainErr' = mainErr
        ELSE /\ key' = key
             /\ mainPc' = "failed"
             /\ mainErr' = NoKeyErr
    /\ UNCHANGED <<frameVars, envVars, handlerSet, accepted, storeVars,
                   connVars, watcherVars, procVars, bridgeVars>>

\* (mutation) a check that lets a short key through
key_ok_at_most(len) == len <= KeyLen

\* key.len() != 32
key_ok(len) == len = KeyLen

\* main, from the check of the key's length to the accept loop.  `fails` is
\* the call that fails among those whose result the environment decides.
Main ==
    /\ mainPc = "keyed"
    /\ key' = NoFile
    /\ \E fails \in {"none", "bind", "set_permissions", "set_handler"} :
        IF ~key_ok(key) \/ ~socket_path
        THEN /\ mainPc' = "failed"
             /\ mainErr' = IF ~key_ok(key) THEN KeyLenErr ELSE NoRuntimeDirErr
             /\ UNCHANGED <<sockFile, handlerSet, watcherPc>>
        ELSE IF fails = "bind"
        THEN /\ mainPc' = "failed"
             /\ mainErr' = BindErr
             /\ sockFile' = "none"
             /\ UNCHANGED <<handlerSet, watcherPc>>
        ELSE IF fails \in {"set_permissions", "set_handler"}
        THEN /\ mainPc' = "failed"
             /\ mainErr' = IF fails = "set_permissions" THEN PermsErr
                                                         ELSE HandlerErr
             /\ sockFile' = "stale"
             /\ UNCHANGED <<handlerSet, watcherPc>>
        ELSE /\ sockFile' = "bound"
             /\ handlerSet' = TRUE
             /\ start_wayland_watcher
             /\ mainPc' = "listening"
             /\ mainErr' = mainErr
    /\ UNCHANGED <<frameVars, env, wlSock, fsCount, accepted, storeVars,
                   connVars, watching, events, child, lastObs, spawnErr,
                   procVars, bridgeVars>>

\* The ctrlc handler: remove the socket file, std::process::exit(0).  The
\* process's threads and its inotify instance end with it; its children do
\* not.
Signal ==
    /\ Alive
    /\ handlerSet
    /\ sockFile' = "none"
    /\ mainPc' = "exited"
    /\ watching' = FALSE
    /\ events' = <<>>
    /\ UNCHANGED <<frameVars, env, wlSock, fsCount, handlerSet, accepted,
                   key, mainErr, storeVars, connVars, watcherPc, child,
                   lastObs, spawnErr, procVars, bridgeVars>>

\* ---------------------------------------------------------------- watcher
NoName == "none"
Event(name, mask) == [name |-> name, mask |-> mask]

\* spawn_wl_paste: Some(child), or None when the spawn returns Err.
spawn_wl_paste(err) ==
    /\ child' = IF err THEN 0 ELSE nextPid
    /\ running' = IF err THEN running ELSE running \cup {nextPid}
    /\ nextPid' = IF err THEN nextPid ELSE nextPid + 1
    /\ spawnErr' = err

\* (mutation) the DELETE branch with child.as_mut() in place of child.take()
kill_child_keeps_handle ==
    /\ child' = child
    /\ running' = running \ {child}
    /\ reaped' = IF child # 0 THEN reaped \cup {child} ELSE reaped

\* if let Some(mut c) = child.take() { c.kill(); c.wait(); }
kill_child ==
    /\ child' = 0
    /\ running' = running \ {child}
    /\ reaped' = IF child # 0 THEN reaped \cup {child} ELSE reaped

\* Inotify::init and watches().add
WatcherInit ==
    /\ Alive
    /\ watcherPc = "init"
    /\ \E ok \in BOOLEAN :
        /\ watcherPc' = IF ok THEN "check" ELSE "stopped"
        /\ watching' = ok
    /\ UNCHANGED <<frameVars, envVars, mainVars, storeVars, connVars, events, child,
                   lastObs, spawnErr, procVars, bridgeVars>>

\* "If compositor is already up when the daemon starts, launch immediately."
WatcherStartupCheck ==
    /\ Alive
    /\ watcherPc = "check"
    /\ IF wayland_socket
       THEN /\ \E err \in BOOLEAN : spawn_wl_paste(err)
            /\ lastObs' = "present"
       ELSE /\ child' = 0
            /\ lastObs' = "absent"
            /\ UNCHANGED <<nextPid, running, spawnErr>>
    /\ watcherPc' = "loop"
    /\ UNCHANGED <<frameVars, envVars, mainVars, storeVars, connVars, watching, events,
                   reaped, bridgeVars>>

\* One event of the batch read_events_blocking returned.
WatcherEvent ==
    /\ Alive
    /\ watcherPc = "loop"
    /\ events # <<>>
    /\ events' = Tail(events)
    /\ LET event == Head(events) IN
       IF event.name = NoName \/ event.name # "display"
       THEN UNCHANGED <<child, lastObs, spawnErr, procVars>>
       ELSE IF event.mask = "CREATE"
       THEN /\ \E err \in BOOLEAN : spawn_wl_paste(err)
            /\ lastObs' = "present"
            /\ UNCHANGED reaped
       ELSE IF event.mask = "DELETE"
       THEN /\ kill_child
            /\ lastObs' = "absent"
            /\ UNCHANGED <<nextPid, spawnErr>>
       ELSE UNCHANGED <<child, lastObs, spawnErr, procVars>>
    /\ UNCHANGED <<frameVars, envVars, mainVars, storeVars, connVars, watcherPc,
                   watching, bridgeVars>>

\* read_events_blocking fails: the loop breaks and the thread ends, dropping
\* the inotify instance and the Child (which a drop does not kill).
WatcherReadError ==
    /\ Alive
    /\ watcherPc = "loop"
    /\ watcherPc' = "stopped"
    /\ watching' = FALSE
    /\ events' = <<>>
    /\ child' = 0
    /\ UNCHANGED <<frameVars, envVars, mainVars, storeVars, connVars, lastObs, spawnErr,
                   procVars, bridgeVars>>

\* ------------------------------------------------------------ environment
Notify(e) == events' = IF watching THEN Append(events, e) ELSE events

\* The compositor starts and creates its socket.
CompositorUp ==
    /\ env.runtime_dir /\ env.display
    /\ ~wlSock
    /\ fsCount < MaxFsEvents
    /\ wlSock' = TRUE
    /\ fsCount' = fsCount + 1
    /\ Notify(Event("display", "CREATE"))
    /\ UNCHANGED <<frameVars, env, sockFile, mainVars, storeVars, connVars, watcherPc,
                   watching, child, lastObs, spawnErr, procVars, bridgeVars>>

\* The compositor stops (or crashes) and its socket is deleted.
CompositorDown ==
    /\ wlSock
    /\ fsCount < MaxFsEvents
    /\ wlSock' = FALSE
    /\ fsCount' = fsCount + 1
    /\ Notify(Event("display", "DELETE"))
    /\ UNCHANGED <<frameVars, env, sockFile, mainVars, storeVars, connVars, watcherPc,
                   watching, child, lastObs, spawnErr, procVars, bridgeVars>>

\* Another entry of the runtime directory changes, or inotify reports an
\* event that carries no name.
OtherFsEvent ==
    /\ watching
    /\ fsCount < MaxFsEvents
    /\ fsCount' = fsCount + 1
    /\ \E e \in {Event("other", "CREATE"), Event("other", "DELETE"),
                 Event(NoName, "OTHER")} : Notify(e)
    /\ UNCHANGED <<frameVars, env, sockFile, wlSock, mainVars, storeVars, connVars,
                   watcherPc, watching, child, lastObs, spawnErr, procVars,
                   bridgeVars>>

\* A wl-paste process that has lost its compositor exits by itself.
BridgeExit ==
    /\ ~wlSock
    /\ \E p \in running : running' = running \ {p}
    /\ UNCHANGED <<frameVars, envVars, mainVars, storeVars, connVars, watcherVars,
                   nextPid, reaped, bridgeVars>>

\* ------------------------------------------------------ connection server
\* A slot whose worker thread has ended (or never started)
Idle(c) == pc[c] \in {"free", "done"}

\* The accept loop: one thread per accepted connection.
Accept(c) ==
    /\ Alive
    /\ accepted < MaxAccepts
    /\ Idle(c)
    /\ \A d \in Conns : d < c => ~Idle(d)
    /\ accepted' = accepted + 1
    /\ pc' = [pc EXCEPT ![c] = "read"]
    /\ sent' = [sent EXCEPT ![c] = <<>>]
    /\ UNCHANGED <<frameVars, envVars, mainPc, handlerSet, key, mainErr,
                   storeVars, peer, req, resp, newbuf, piped, fwd, stored,
                   watcherVars, procVars, bridgeVars>>

\* handle_connection: read_frame and the match on the request.  A stream
\* that cannot be read ends the connection with the error logged.
Serve(c, who, s) ==
    /\ Alive
    /\ pc[c] = "read"
    /\ LET r == read_frame(s) IN
       IF ~r.ok
       THEN /\ pc' = [pc EXCEPT ![c] = "done"]
            /\ UNCHANGED <<peer, req>>
       ELSE /\ peer' = [peer EXCEPT ![c] = who]
            /\ req' = [req EXCEPT ![c] = r.msg]
            /\ pc' = [pc EXCEPT ![c] =
                         IF r.msg.type = "Copy" THEN "copy" ELSE "paste"]
    /\ UNCHANGED <<frameVars, envVars, mainVars, storeVars, resp, newbuf, piped, sent,
                   fwd, stored, watcherVars, procVars>>

\* clipto (or any local peer) connects and sends its stream.
ClientRequest(c) ==
    /\ \E s \in Streams : Serve(c, "client", s)
    /\ UNCHANGED relayQ

\* A running wl-paste --watch runs `clipto copy --source wayland` on the
\* selection it saw change.
BridgeRelay(c) ==
    /\ relayQ # <<>>
    /\ Serve(c, "bridge", Frame(Copy(Head(relayQ), Wayland)))
    /\ relayQ' = Tail(relayQ)

\* (mutation) a guard that excludes nobody
LockFreeAlways == TRUE

\* state.lock(): the guard can be taken
LockFree == lock = 0

\* (mutation) a store that encrypts and assigns nothing
store_assigns_nothing(b, nonce, plaintext) == b

\* (mutation) a store that keeps the entry already held
store_keeps_first(b, nonce, plaintext) ==
    IF b # <<>> THEN b ELSE <<EncryptedBuffer(nonce, encrypt(nonce, plaintext))>>

\* The value State::store assigns to self.buffer (b is the value it replaces)
store(b, nonce, plaintext) == <<EncryptedBuffer(nonce, encrypt(nonce, plaintext))>>

\* (mutation) should_sync without the test of the source
should_sync_always(source) == TRUE

\* let should_sync = source == CopySource::User
should_sync(source) == source = User

\* (mutation) sync_to_wayland(&payload)? : the forward's error is returned
SyncResponsePropagated(outcome) ==
    IF outcome = "forwarded" THEN RespOk ELSE RespError("sync failed")

\* `let _ = sync_to_wayland(&payload); Response::Ok`: the response after a
\* forward that ended with the result `outcome`
SyncResponse(outcome) == RespOk

\* stdin.write_all(payload): the bytes wl-copy is given
WriteAll(payload) == <<payload>>

\* (mutation) the guard kept until the end of the match arm
drop_at_end_of_arm(st) == st

\* drop(st): the lock once the worker st has released its guard
drop(st) == 0

\* (mutation) a store that takes the old entry out before it encrypts
store_failed_takes(b) == <<>>

\* State::store returning Err from encrypt: self.buffer, which the `?`
\* returns before assigning, as the call leaves it
store_failed(b) == b

\* (mutation) the error of the store dropped and the Copy answered Ok
ErrResponseIgnored(message) == RespOk

\* Err(e) => Response::Error { message: e.to_string() }
ErrResponse(message) == RespError(message)

\* (mutation) the worker goes back to read_frame for another request
after_write_frame_loops == "read"

\* After write_frame the closure returns and handle_connection ends, which
\* drops the stream.
after_write_frame == "done"

\* Copy: take the guard; State::store draws its nonce and encrypts.  A
\* cipher error becomes the response and the guard goes at the end of the arm.
StoreEncrypt(c) ==
    /\ Alive
    /\ pc[c] = "copy"
    /\ LockFree
    /\ \E nonce \in Nonces, ok \in BOOLEAN :
        IF ok
        THEN /\ lock' = c
             /\ newbuf' = [newbuf EXCEPT ![c] = store(buffer, nonce, req[c].payload)]
             /\ pc' = [pc EXCEPT ![c] = "replace"]
             /\ resp' = resp
             /\ buffer' = buffer
        ELSE /\ resp' = [resp EXCEPT ![c] = ErrResponse("encryption failed")]
             /\ pc' = [pc EXCEPT ![c] = "write"]
             /\ buffer' = store_failed(buffer)
             /\ UNCHANGED <<lock, newbuf>>
    /\ UNCHANGED <<frameVars, envVars, mainVars, lastStored, peer, req, piped,
                   sent, fwd, stored, watcherVars, procVars, bridgeVars>>

\* self.buffer = Some(..), first half: the value replaced is dropped, which
\* zeroizes its ciphertext.
StoreDropOld(c) ==
    /\ Alive
    /\ pc[c] = "replace"
    /\ buffer' = DropBuffer(buffer)
    /\ pc' = [pc EXCEPT ![c] = "assign"]
    /\ UNCHANGED <<frameVars, envVars, mainVars, lock, lastStored, peer, req, resp,
                   newbuf, piped, sent, fwd, stored, watcherVars, procVars,
                   bridgeVars>>

\* self.buffer = Some(..), second half, then should_sync and drop(st).
StoreAssign(c) ==
    /\ Alive
    /\ pc[c] = "assign"
    /\ buffer' = newbuf[c]
    /\ newbuf' = [newbuf EXCEPT ![c] = <<>>]
    /\ lastStored' = <<req[c].payload>>
    /\ stored' = [stored EXCEPT ![c] = TRUE]
    /\ lock' = drop(c)
    /\ IF should_sync(req[c].source)
       THEN /\ pc' = [pc EXCEPT ![c] = "sync"]
            /\ resp' = resp
       ELSE /\ pc' = [pc EXCEPT ![c] = "write"]
            /\ resp' = [resp EXCEPT ![c] = RespOk]
    /\ UNCHANGED <<frameVars, envVars, mainVars, peer, req, piped, sent, fwd,
                   watcherVars, procVars, bridgeVars>>

\* Paste: take the guard, State::load, and the guard goes at the end of the
\* arm.
PasteLoad(c) ==
    /\ Alive
    /\ pc[c] = "paste"
    /\ LockFree
    /\ LET r == load(buffer) IN
       resp' = [resp EXCEPT ![c] =
                   IF r.ok THEN RespPayload(r.data) ELSE RespError(r.message)]
    /\ pc' = [pc EXCEPT ![c] = "write"]
    /\ UNCHANGED <<frameVars, envVars, mainVars, storeVars, peer, req, newbuf, piped,
                   sent, fwd, stored, watcherVars, procVars, bridgeVars>>

\* sync_to_wayland up to the write to wl-copy's stdin.
SyncToWayland(c) ==
    /\ Alive
    /\ pc[c] = "sync"
    /\ IF ~wayland_socket
       THEN /\ fwd' = [fwd EXCEPT ![c] = "no_compositor"]
            /\ resp' = [resp EXCEPT ![c] = SyncResponse("no_compositor")]
            /\ pc' = [pc EXCEPT ![c] = "write"]
            /\ piped' = piped
       ELSE \E outcome \in {"spawn_failed", "write_failed", "written"} :
            /\ fwd' = [fwd EXCEPT ![c] = outcome]
            /\ IF outcome = "written"
               THEN /\ piped' = [piped EXCEPT ![c] = WriteAll(req[c].payload)]
                    /\ pc' = [pc EXCEPT ![c] = "wait"]
                    /\ resp' = resp
               ELSE /\ piped' = piped
                    /\ pc' = [pc EXCEPT ![c] = "write"]
                    /\ resp' = [resp EXCEPT ![c] = SyncResponse(outcome)]
    /\ UNCHANGED <<frameVars, envVars, mainVars, storeVars, peer, req, newbuf, sent,
                   stored, watcherVars, procVars, relayQ>>

\* The selections n running bridges relay for one change of the selection
Relays(n, selection) == [i \in 1..n |-> selection]

\* child.wait(): wl-copy, its stdin closed, sets the compositor's selection
\* to what it was given if the compositor is still there, and every running
\* wl-paste --watch sees the change.
SyncWait(c) ==
    /\ Alive
    /\ pc[c] = "wait"
    /\ \E outcome \in {"wait_failed", "forwarded"} :
        /\ fwd' = [fwd EXCEPT ![c] = outcome]
        /\ resp' = [resp EXCEPT ![c] = SyncResponse(outcome)]
    /\ pc' = [pc EXCEPT ![c] = "write"]
    /\ relayQ' = IF wlSock
                 THEN relayQ \o Relays(Cardinality(running), piped[c][1])
                 ELSE relayQ
    /\ UNCHANGED <<frameVars, envVars, mainVars, storeVars, peer, req, newbuf, piped,
                   sent, stored, watcherVars, procVars>>

\* write_frame: the response reaches the peer unless the peer has gone; the
\* worker ends.
WriteFrame(c) ==
    /\ Alive
    /\ pc[c] = "write"
    /\ \E ok \in BOOLEAN : sent' = [sent EXCEPT ![c] = IF ok THEN <<resp[c]>> ELSE <<>>]
    /\ pc' = [pc EXCEPT ![c] = after_write_frame]
    /\ peer' = [peer EXCEPT ![c] = "none"]
    /\ req' = [req EXCEPT ![c] = NoRequest]
    /\ resp' = [resp EXCEPT ![c] = NoResponse]
    /\ piped' = [piped EXCEPT ![c] = <<>>]
    /\ fwd' = [fwd EXCEPT ![c] = "none"]
    /\ stored' = [stored EXCEPT ![c] = FALSE]
    /\ UNCHANGED <<frameVars, envVars, mainVars, storeVars, newbuf, watcherVars,
                   procVars, bridgeVars>>

\* ---------------------------------------------------------- specifications
\* The connection server, with the watcher's startup and a compositor that
\* comes and goes.
NextServer ==
    \/ LoadKey
    \/ Main
    \/ WatcherInit
    \/ WatcherStartupCheck
    \/ CompositorUp
    \/ CompositorDown
    \/ \E c \in Conns : Accept(c)
    \/ \E c \in Conns : ClientRequest(c)
    \/ \E c \in Conns : BridgeRelay(c)
    \/ \E c \in Conns : StoreEncrypt(c)
    \/ \E c \in Conns : StoreDropOld(c)
    \/ \E c \in Conns : StoreAssign(c)
    \/ \E c \in Conns : PasteLoad(c)
    \/ \E c \in Conns : SyncToWayland(c)
    \/ \E c \in Conns : SyncWait(c)
    \/ \E c \in Conns : WriteFrame(c)

SpecServer == Init /\ [][NextServer]_vars

\* ---------------------------------------------------- watcher and shutdown
\* The daemon's startup, its watcher thread, its signal handler and the
\* runtime directory they react to.
NextWatcher ==
    \/ LoadKey
    \/ Main
    \/ Signal
    \/ WatcherInit
    \/ WatcherStartupCheck
    \/ WatcherEvent
    \/ WatcherReadError
    \/ CompositorUp
    \/ CompositorDown
    \/ OtherFsEvent
    \/ BridgeExit

SpecWatcher == Init /\ [][NextWatcher]_vars

\* ------------------------------------------------------- the frame reader
\* read_frame applied to a stream.
FrameRead ==
    /\ ~rx.done
    /\ rx' = read_frame(wire)
    /\ UNCHANGED <<wire, envVars, mainVars, storeVars, connVars, watcherVars,
                   procVars, bridgeVars>>

\* A daemon not yet started, and any stream a peer can send.
InitFrame ==
    /\ env = [runtime_dir |-> TRUE, display |-> TRUE]
    /\ sockFile = "none"
    /\ wlSock = FALSE
    /\ fsCount = 0
    /\ mainPc = "start"
    /\ handlerSet = FALSE
    /\ accepted = 0
    /\ lock = 0
    /\ buffer = <<>>
    /\ pc = [c \in Conns |-> "free"]
    /\ peer = [c \in Conns |-> "none"]
    /\ req = [c \in Conns |-> NoRequest]
    /\ resp = [c \in Conns |-> NoResponse]
    /\ newbuf = [c \in Conns |-> <<>>]
    /\ piped = [c \in Conns |-> <<>>]
    /\ sent = [c \in Conns |-> <<>>]
    /\ fwd = [c \in Conns |-> "none"]
    /\ stored = [c \in Conns |-> FALSE]
    /\ watcherPc = "off"
    /\ watching = FALSE
    /\ events = <<>>
    /\ child = 0
    /\ nextPid = 1
    /\ running = {}
    /\ reaped = {}
    /\ relayQ = <<>>
    /\ lastObs = "none"
    /\ spawnErr = FALSE
    /\ lastStored = <<>>
    /\ key = NoFile
    /\ mainErr = ""
    /\ wire \in AnyStream
    /\ rx = NotRead

NextFrame == FrameRead

SpecFrame == InitFrame /\ [][NextFrame]_vars

\* The whole daemon.
Next == NextWatcher \/ NextServer

Spec == Init /\ [][Next]_vars

\* ------------------------------------------------------------------ claims
Active == child # 0
HandlesCreate == WatcherEvent /\ Head(events) = Event("display", "CREATE")
HandlesDelete == WatcherEvent /\ Head(events) = Event("display", "DELETE")

\* C1: a CREATE event for the display's name handled while the watcher is
\* Active is a no-op: no process is spawned and the handle held stays the
\* same.
C1_DuplicateCreateIsNoOp ==
    [][(HandlesCreate /\ Active)
         => (child' = child /\ nextPid' = nextPid /\ running' = running)]_vars

\* C2 as claimed: once the startup check is done, the watcher is Active
\* exactly when its last observation of the socket (the startup check, or the
\* last CREATE or DELETE event for the display's name) was "present", also
\* when the spawn fails.
C2_ActiveIffLastObservedPresent ==
    watcherPc = "loop" => (Active <=> lastObs = "present")

\* C2: once the startup check is done, the watcher is Active exactly when
\* its last observation of the socket was "present" and the spawn made for
\* that observation succeeded.
C2_ActiveIffPresentAndSpawned ==
    watcherPc = "loop" => (Active <=> (lastObs = "present" /\ ~spawnErr))

\* The socket was last observed present, the spawn failed, and the watcher
\* holds no handle.
C2_Witness ==
    watcherPc = "loop" /\ lastObs = "present" /\ spawnErr /\ ~Active /\ wlSock

\* C3: from Inactive, a CREATE event (whose spawn succeeds) makes the
\* watcher Active with exactly one new bridge process, and the DELETE event
\* that follows makes it Inactive again with exactly that process killed and
\* reaped, leaving no bridge process running.
C3_CreateDeleteCycle ==
    [][/\ (HandlesCreate /\ ~Active /\ ~spawnErr')
            => /\ child' = nextPid
               /\ nextPid' = nextPid + 1
               /\ running' = running \cup {child'}
       /\ (HandlesDelete /\ Active)
            => /\ child' = 0
               /\ reaped' = reaped \cup {child}
               /\ running' = {}]_vars

\* C4: while the watcher runs, every bridge process that is running is the
\* one its handle refers to, so at most one is running.
C4_NoUntrackedBridge ==
    watcherPc = "loop" => \A p \in running : p = child

\* C5: once the daemon has exited on a signal, no bridge process is running.
C5_NoBridgeOutlivesDaemon ==
    mainPc = "exited" => running = {}

\* What the claims about forwarding read of the file system
SocketPresent == env.runtime_dir /\ env.display /\ wlSock
EmptyClipboard == RespError("clipboard is empty")
Steps(c, from) == pc[c] = from /\ pc'[c] # from

\* C6: whatever the interleaving of the workers, a Paste answers with the
\* empty-clipboard error if no Copy has completed its store, and otherwise
\* with exactly the whole payload of the last Copy that completed it: the
\* entry before or after a racing Copy, never a mixture.
C6_NoTornReads ==
    [][\A c \in Conns :
         Steps(c, "paste")
           => resp'[c] = IF lastStored = <<>> THEN EmptyClipboard
                         ELSE RespPayload(lastStored[1])]_vars

\* A Paste has its payload while a Copy on the other connection is racing.
C6_Witness ==
    \E c, d \in Conns :
        /\ c # d
        /\ pc[c] = "write" /\ req[c].type = "Paste" /\ resp[c].type = "Payload"
        /\ pc[d] \in {"replace", "assign"}
        /\ req[d].payload # resp[c].data

\* C7: after any non-empty sequence of successful stores, with none in
\* progress, load returns exactly the payload of the last one.
C7_LoadReturnsLastStore ==
    (lock = 0 /\ lastStored # <<>>)
      => load(buffer) = [ok |-> TRUE, data |-> lastStored[1], message |-> ""]

\* Two stores of different payloads have succeeded, the empty payload last.
C7_Witness ==
    \E c, d \in Conns :
        /\ c # d /\ stored[c] /\ stored[d]
        /\ req[c].payload # req[d].payload
        /\ lastStored = <<req[c].payload>> /\ req[c].payload = <<>>
        /\ lock = 0

\* C8: a Copy tagged Wayland is never forwarded: its worker never enters
\* sync_to_wayland and gives wl-copy nothing; what the bridge relays is
\* tagged Wayland, so a relayed copy causes no further forward or relay.
C8_NoForwardOfWaylandCopy ==
    \A c \in Conns :
        /\ peer[c] = "bridge" => (req[c].type = "Copy" /\ req[c].source = Wayland)
        /\ (req[c].type = "Copy" /\ req[c].source = Wayland)
             => /\ pc[c] \notin {"sync", "wait"}
                /\ fwd[c] = "none"
                /\ piped[c] = <<>>

\* The bridge has relayed a forwarded User copy back, it is stored and about
\* to be answered, and nothing is left to relay or forward.
C8_Witness ==
    \E c \in Conns :
        /\ peer[c] = "bridge" /\ pc[c] = "write" /\ stored[c]
        /\ relayQ = <<>>
        /\ \A d \in Conns : d # c => Idle(d)

\* C9: a User copy that was stored goes on to sync_to_wayland; there, if the
\* compositor's socket is present, wl-copy is spawned and, unless the spawn
\* or the write fails, is given exactly the payload; if the socket is absent
\* the forward is skipped and nothing is spawned.
C9_ForwardIffCompositor ==
    [][\A c \in Conns :
         /\ (Steps(c, "assign") /\ req[c].source = User) => pc'[c] = "sync"
         /\ Steps(c, "sync")
              => IF SocketPresent
                 THEN /\ fwd'[c] \in {"spawn_failed", "write_failed", "written"}
                      /\ fwd'[c] = "written" => piped'[c] = <<req[c].payload>>
                 ELSE /\ fwd'[c] = "no_compositor"
                      /\ piped'[c] = <<>>
                      /\ pc'[c] = "write"]_vars

\* One User copy has been given to wl-copy while another was skipped.
C9_Witness ==
    \E c, d \in Conns :
        /\ pc[c] = "wait" /\ piped[c] = <<req[c].payload>> /\ req[c].payload # <<>>
        /\ pc[d] = "write" /\ fwd[d] = "no_compositor"

\* C10: a Copy whose store succeeded is answered Ok whatever the forward
\* did, and the forward leaves the stored entry as it is.
C10_ForwardFailureSwallowed ==
    [][\A c \in Conns :
         /\ (pc[c] \in {"sync", "wait"} /\ pc'[c] # pc[c])
              => /\ buffer' = buffer
                 /\ pc'[c] = "write" => resp'[c] = RespOk
         /\ (Steps(c, "assign") /\ pc'[c] = "write") => resp'[c] = RespOk
         /\ (Steps(c, "write") /\ stored[c] /\ sent'[c] # <<>>)
              => sent'[c] = <<RespOk>>]_vars

\* A stored Copy whose forward failed is about to be answered.
C10_Witness ==
    \E c \in Conns :
        /\ pc[c] = "write" /\ stored[c]
        /\ fwd[c] \in {"spawn_failed", "write_failed", "wait_failed"}
        /\ resp[c] = RespOk

InStore(c) == pc[c] \in {"replace", "assign"}
InSync(c) == pc[c] \in {"sync", "wait"}
Others(c) == Conns \ {c}

\* C11: the Store's guard is held by a worker exactly while it is in the
\* encrypt-and-replace step (a Paste takes and releases it within its
\* decrypt-and-read step); a worker inside sync_to_wayland, be it blocked on
\* the subprocess, never holds it, so the lock is then free or held by
\* another worker that is in its own store step.
C11_LockFreeWhileForwarding ==
    \A c \in Conns :
        /\ lock = c <=> InStore(c)
        /\ InSync(c) => (lock # c /\ (lock # 0 => InStore(lock)))

\* A worker waits for wl-copy while the other connection's Paste, served
\* meanwhile, already has that worker's payload.
C11_Witness ==
    \E c, d \in Conns :
        /\ pc[c] = "wait" /\ req[c].payload # <<>>
        /\ pc[d] = "write" /\ req[d] = Paste
        /\ resp[d] = RespPayload(req[c].payload)
        /\ lock = 0

\* C12 as claimed: a connection that has ended has been written exactly one
\* response.
C12_EveryConnectionAnswered ==
    \A c \in Conns : pc[c] = "done" => Len(sent[c]) = 1

\* C12: a worker reads one request, at its start and never again, and
\* writes at most one response, the one computed for that request, after
\* which the connection is closed; the connection ends without a response
\* only when the request could not be read or the write of the response
\* failed.
C12_OneRequestOneResponse ==
    [][\A c \in Conns :
         /\ Steps(c, "read")
              => /\ sent[c] = <<>> /\ req[c] = NoRequest
                 /\ pc'[c] = "done" \/ req'[c] \in Request
         /\ req'[c] # req[c] => (Steps(c, "read") \/ Steps(c, "write"))
         /\ Steps(c, "write")
              => /\ pc'[c] = "done"
                 /\ resp[c] # NoResponse
                 /\ sent[c] = <<>>
                 /\ sent'[c] \in {<<>>, <<resp[c]>>}
         /\ sent'[c] # sent[c] => (Steps(c, "write") \/ pc'[c] = "read")
         /\ (pc[c] = "done" /\ pc'[c] # "done")
              => (pc'[c] = "read" /\ accepted' = accepted + 1 /\ sent'[c] = <<>>)]_vars

\* One connection has ended with its response written, the other without.
C12_Witness ==
    \E c, d \in Conns :
        /\ pc[c] = "done" /\ Len(sent[c]) = 1
        /\ pc[d] = "done" /\ sent[d] = <<>>

\* A step of connection c that is a fault: an unreadable request, a store or
\* load error, or a response that cannot be written.
Fault(c) ==
    \/ Steps(c, "read") /\ pc'[c] = "done"
    \/ Steps(c, "copy") /\ pc'[c] = "write"
    \/ Steps(c, "paste") /\ resp'[c].type = "Error"
    \/ Steps(c, "write") /\ sent'[c] = <<>>

\* C13: a fault while serving one connection ends (or answers with an
\* error) only that connection: the stored entry and the lock are as they
\* were, the daemon keeps listening, and the other connections' workers are
\* untouched; the lock is only ever held by a worker in its store step, and
\* the entry is whole whenever the lock is free.
C13_FaultIsolation ==
    [][/\ \A c \in Conns :
            Fault(c)
              => /\ buffer' = buffer /\ lastStored' = lastStored
                 /\ lock' = lock /\ lock # c
                 /\ mainPc' = "listening"
                 /\ \A d \in Others(c) :
                      /\ pc'[d] = pc[d] /\ req'[d] = req[d]
                      /\ resp'[d] = resp[d] /\ sent'[d] = sent[d]
       /\ lock' # 0 => pc'[lock'] \in {"replace", "assign"}
       /\ lock' = 0 => (buffer' = <<>> \/ load(buffer').ok)]_vars

\* After a store error on one connection, the other connection's Paste has
\* the entry stored before it.
C13_Witness ==
    \E c, d \in Conns :
        /\ pc[c] = "write" /\ req[c].type = "Copy" /\ resp[c].type = "Error"
        /\ pc[d] = "write" /\ req[d] = Paste /\ resp[d].type = "Payload"
        /\ resp[d].data # req[c].payload

\* C14: there is a maximum, below the largest length the prefix can declare,
\* such that read_frame fails without allocating or reading the payload when
\* the declared length exceeds it; and read_frame fails when the stream ends
\* inside the prefix or inside the payload.
C14_OversizeAndTruncationRejected ==
    rx.done =>
        /\ \E max \in 0..(MaxDeclared - 1) :
             (wire.header = 4 /\ wire.declared > max)
               => (~rx.ok /\ rx.alloc = 0 /\ rx.read = 0)
        /\ (wire.header < 4 \/ wire.avail < wire.declared) => ~rx.ok

StartsUp == mainPc = "keyed" /\ mainPc' # "keyed"
EnvironmentErrs == {BindErr, PermsErr, HandlerErr}

\* A startup that starts no watcher and fails only where the environment
\* refuses the socket, its permissions or the signal handler.
StartsWithoutWatcher ==
    /\ watcherPc' = "off"
    /\ mainPc' = "failed" => mainErr' \in EnvironmentErrs

WatcherQuiet ==
    watcherPc = "off" /\ ~watching /\ events = <<>> /\ child = 0
        /\ running = {} /\ nextPid = 1

\* C15 as claimed: if the runtime directory or the display variable is
\* unset, the watcher does nothing (no watch, no bridge) and the daemon,
\* given a good key, still comes up unless binding itself fails.
C15_ServesWithoutRuntimeDirOrDisplay ==
    [][/\ (StartsUp /\ key = KeyLen /\ ~(env.runtime_dir /\ env.display))
            => StartsWithoutWatcher
       /\ ~(env.runtime_dir /\ env.display) => WatcherQuiet']_vars

\* C15: if the display variable is unset (the runtime directory being set),
\* the watcher does nothing (no watch, no bridge) and the daemon, given a
\* good key, comes up unless binding itself fails, and serves: a stored User
\* copy skips the forward and is answered Ok, a Paste returns the last
\* payload stored.  If the runtime directory is unset, startup fails with
\* the error of socket_path before anything is bound or started.
C15_ServesWithoutDisplay ==
    [][/\ (StartsUp /\ key = KeyLen /\ env.runtime_dir /\ ~env.display)
            => StartsWithoutWatcher
       /\ (StartsUp /\ key = KeyLen /\ ~env.runtime_dir)
            => /\ mainPc' = "failed" /\ mainErr' = NoRuntimeDirErr
               /\ sockFile' = sockFile /\ ~handlerSet'
       /\ ~(env.runtime_dir /\ env.display) => WatcherQuiet'
       /\ ~env.display
            => \A c \in Conns :
                 /\ Steps(c, "sync")
                      => (pc'[c] = "write" /\ resp'[c] = RespOk /\ piped'[c] = <<>>)
                 /\ (Steps(c, "paste") /\ lastStored # <<>>)
                      => resp'[c] = RespPayload(lastStored[1])]_vars

\* With no display variable the daemon listens, has no watcher, and a Paste
\* has the payload of an earlier Copy.
C15_Witness ==
    /\ ~env.display /\ mainPc = "listening" /\ watcherPc = "off"
    /\ \E c \in Conns :
         pc[c] = "write" /\ req[c] = Paste /\ resp[c] = RespPayload(<<0>>)

\* C16: a Paste served while no Copy has ever succeeded on this daemon
\* instance is answered with the empty-clipboard error, never a payload,
\* and the Store is empty before and after.
C16_PasteBeforeAnyCopy ==
    [][\A c \in Conns :
         /\ (Steps(c, "paste") /\ lastStored = <<>>)
              => /\ resp'[c] = EmptyClipboard
                 /\ buffer = <<>> /\ buffer' = <<>>
         /\ (Steps(c, "write") /\ req[c] = Paste /\ lastStored = <<>>)
              => /\ sent'[c] \in {<<>>, <<EmptyClipboard>>}
                 /\ buffer' = <<>>]_vars

\* A Paste has the empty-clipboard error after the only Copy so far failed.
C16_Witness ==
    \E c, d \in Conns :
        /\ pc[c] = "write" /\ req[c] = Paste /\ resp[c] = EmptyClipboard
        /\ pc[d] = "write" /\ req[d].type = "Copy" /\ resp[d].type = "Error"
        /\ lastStored = <<>> /\ buffer = <<>>

\* C17: with a resolved key whose length is not 32, startup fails with the
\* key-length error and touches nothing: the socket file (stale or absent)
\* is as it was, nothing is bound, no handler is installed, no watcher is
\* started and no connection is ever accepted.
C17_BadKeyLengthFailsBeforeSocket ==
    [][/\ (StartsUp /\ key # KeyLen)
            => /\ mainPc' = "failed" /\ mainErr' = KeyLenErr
               /\ sockFile' = sockFile /\ ~handlerSet'
       /\ mainErr' = KeyLenErr
            => /\ mainPc' = "failed" /\ sockFile' # "bound"
               /\ watcherPc' = "off" /\ ~watching'
               /\ accepted' = 0 /\ \A c \in Conns : pc'[c] = "free"]_vars

\* Startup has failed on the key's length and the stale socket is still
\* there.
C17_Witness ==
    mainPc = "failed" /\ mainErr = KeyLenErr /\ sockFile = "stale"

\* C18: when store fails with a cipher error the entry held (or emptiness)
\* and the lock are as they were, the worker goes straight to writing an
\* Error response without entering sync_to_wayland, also for a User copy,
\* and the daemon keeps listening.
C18_StoreErrorLeavesEntry ==
    [][\A c \in Conns :
         /\ (Steps(c, "copy") /\ pc'[c] # "replace")
              => /\ pc'[c] = "write"
                 /\ resp'[c] = RespError("encryption failed")
                 /\ buffer' = buffer /\ lastStored' = lastStored
                 /\ lock' = 0
                 /\ mainPc' = "listening"
         /\ (Steps(c, "write") /\ req[c].type = "Copy" /\ ~stored[c])
              => /\ resp[c].type = "Error"
                 /\ fwd[c] = "none" /\ piped[c] = <<>>
                 /\ sent'[c] \in {<<>>, <<resp[c]>>}
                 /\ buffer' = buffer]_vars

\* A User copy failed in store with the compositor up; the entry stored
\* before it is still the one held.
C18_Witness ==
    \E c \in Conns :
        /\ pc[c] = "write" /\ req[c] = Copy(<<0>>, User) /\ resp[c].type = "Error"
        /\ SocketPresent
        /\ lastStored = << <<>> >> /\ load(buffer).ok /\ load(buffer).data = <<>>

\* C19: whenever the daemon runs, the compositor's socket appeared (before the watch was
\* registered, between the registration and the startup check, or after the
\* check) and was never deleted, the watcher has handled what it was
\* notified of and its last spawn succeeded, the watcher is Active and
\* exactly one bridge process runs, the one it holds.  (The socket present
\* after at most one change of the directory was never deleted.)
C19_AppearanceHandledOnce ==
    (Alive /\ watcherPc = "loop" /\ events = <<>> /\ wlSock /\ fsCount <= 1
        /\ ~spawnErr)
      => (Active /\ running = {child})

\* C20: a Copy is answered Ok only once its store has completed, so that the
\* entry then held is its payload or that of a store completed later; the
\* payload last stored is replaced only by a store that completes after it,
\* never cleared; and a Paste served once something is stored returns the
\* payload last stored.  Hence a Paste sent after an Ok for Copy(P) returns P
\* or a payload stored later, never an older one or the empty-clipboard
\* error.
C20_OkOnlyAfterPersisted ==
    [][/\ \A c \in Conns :
            /\ (Steps(c, "write") /\ req[c].type = "Copy" /\ resp[c] = RespOk)
                 => /\ stored[c] /\ ~InSync(c)
                    /\ lastStored # <<>>
                    /\ lock = 0 => load(buffer).data = lastStored[1]
            /\ (Steps(c, "paste") /\ lastStored # <<>>)
                 => resp'[c] = RespPayload(lastStored[1])
       /\ lastStored' # lastStored
            => \E d \in Conns :
                 /\ Steps(d, "assign") /\ ~stored[d]
                 /\ lastStored' = <<req[d].payload>>]_vars

\* One client has its Ok and the connection is closed; a Paste served on the
\* other connection has the payload last stored.
C20_Witness ==
    \E c, d \in Conns :
        /\ pc[c] = "done" /\ sent[c] = <<RespOk>>
        /\ pc[d] = "write" /\ req[d] = Paste
        /\ lastStored = << <<0>> >> /\ resp[d] = RespPayload(<<0>>)
====
